---- MODULE Spec2Model ----
(***************************************************************************)
(* Crop yield recommendation service: the serving side.                    *)
(*                                                                         *)
(*   api/model_loader.py     ModelLoader (load_model, predict, recommend), *)
(*                           get_model_loader                              *)
(*   api/main.py             the /predict and /recommend handlers          *)
(*   src/models/inference.py predict_yield, recommend_crops, validate_crop *)
(*                                                                         *)
(* and the data preparation that precedes training:                        *)
(*                                                                         *)
(*   src/data/cleaner.py         standardize_column_names, clean_*         *)
(*   src/data/fusion.py          merge_datasets, validate_consolidated_data *)
(*   src/features/engineering.py create_features                           *)
(*                                                                         *)
(* Yields are fixed-point numbers in thousandths of hg/ha, so -5000 is a   *)
(* regressor output of -5 and 3004 one of 3.004.  Python's None is the     *)
(* empty tuple for Optional[int] and the string "None" elsewhere.          *)
(***************************************************************************)
EXTENDS Integers, Sequences, FiniteSets, TLC

VARIABLES
    loader,        \* a ModelLoader object used directly: model, metadata, is_loaded
    model_loader,  \* api/main.py's global: absent, or the ModelLoader of lifespan
    _model_loader, \* api/model_loader.py's global: None, or the singleton ModelLoader
    last           \* the call that has just completed: arguments, outcome, model calls

vars == <<loader, model_loader, _model_loader, last>>

----------------------------------------------------------------------------
(* Bounds of the model *)

\* longest supported_crops list a metadata file carries
MaxCrops == 3
\* top_n ranges over None and -MaxTopN..MaxTopN
MaxTopN == 4
\* the regressor's outputs are arbitrary on this many rows of a batch and
\* repeat cyclically on the rows after them
MaxVary == 3
\* most rows of a table handed to a data function
MaxRows == 2

None == "None"
NoInt == <<>>
Some(n) == <<n>>

Min(a, b) == IF a < b THEN a ELSE b
Max(a, b) == IF a > b THEN a ELSE b

\* numbers a regressor outputs: negative, zero, positive (with a third decimal)
Scores == {-5000, 0, 3004}

\* the artifacts joblib can deserialize
Artifacts == {"m1", "m2"}
ModelFiles == {"missing", "corrupt"} \cup Artifacts

MetaCropNames == {"X", "Y"}
CropLists == UNION {[1..n -> MetaCropNames] : n \in 0..MaxCrops}

----------------------------------------------------------------------------
(* ModelLoader: construction, metadata properties *)

\* self.metadata = None
NoMetadata == [kind |-> "None", keys |-> {}, supported_crops |-> <<>>]
\* a JSON object with the given keys
Dict(keys, crops) == [kind |-> "dict", keys |-> keys, supported_crops |-> crops]

\* Python truthiness of self.metadata: None and {} are false
Truthy(md) == md.kind = "dict" /\ md.keys # {}

default_crops ==
    << "Maize", "Potatoes", "Rice, paddy", "Sorghum", "Soybeans",
       "Wheat", "Cassava", "Sweet potatoes", "Plantains and others", "Yams" >>

ModelLoader_init == [model |-> None, metadata |-> NoMetadata, is_loaded |-> FALSE]

supported_crops(self) ==
    IF Truthy(self.metadata) /\ "supported_crops" \in self.metadata.keys
    THEN self.metadata.supported_crops
    ELSE default_crops

model_version(self) ==
    IF Truthy(self.metadata) /\ "model_name" \in self.metadata.keys
    THEN "named" ELSE "unknown"

default_features == << "rainfall_mm", "pesticides_tonnes", "avg_temp", "crop", "country" >>

\* the list a metadata object holds under a key other than supported_crops
MetaValue(key) ==
    CASE key = "numeric_features" -> << "rainfall_mm", "avg_temp" >>
      [] key = "categorical_features" -> << "crop" >>
      [] key = "supported_countries" -> << "India", "Kenya" >>
      [] OTHER -> <<>>

\* self.metadata.get(key, [])
Get(md, key) == IF key \in md.keys THEN MetaValue(key) ELSE <<>>

supported_countries(self) ==
    IF Truthy(self.metadata) /\ "supported_countries" \in self.metadata.keys
    THEN MetaValue("supported_countries")
    ELSE <<>>

\* feature_names without the test of self.metadata
feature_names_no_guard(self) ==
    Get(self.metadata, "numeric_features") \o Get(self.metadata, "categorical_features")

feature_names(self) ==
    IF Truthy(self.metadata)
    THEN Get(self.metadata, "numeric_features") \o Get(self.metadata, "categorical_features")
    ELSE default_features

\* what the metadata path holds: nothing, text that is not JSON, or a JSON object
MetaFiles ==
    {[kind |-> "missing", content |-> NoMetadata],
     [kind |-> "corrupt", content |-> NoMetadata],
     [kind |-> "json", content |-> Dict({}, <<>>)],
     [kind |-> "json", content |-> Dict({"model_name"}, <<>>)],
     [kind |-> "json", content |-> Dict({"numeric_features", "categorical_features",
                                         "supported_countries"}, <<>>)]}
    \cup {[kind |-> "json", content |-> Dict({"supported_crops"}, cs)] : cs \in CropLists}

----------------------------------------------------------------------------
(* ModelLoader.load_model *)

\* load_model with "self.is_loaded = True" moved ahead of the loading
load_model_flag_first(self, modelFile, metaFile) ==
    LET flagged == [self EXCEPT !.is_loaded = TRUE] IN
    IF modelFile = "missing"
    THEN [self |-> flagged, error |-> "FileNotFoundError"]
    ELSE IF modelFile = "corrupt"
    THEN [self |-> flagged, error |-> "UnpicklingError"]
    ELSE LET withModel == [flagged EXCEPT !.model = modelFile] IN
         IF metaFile.kind = "corrupt"
         THEN [self |-> withModel, error |-> "JSONDecodeError"]
         ELSE [self |-> [withModel EXCEPT
                            !.metadata = IF metaFile.kind = "json"
                                         THEN metaFile.content
                                         ELSE Dict({}, <<>>)],
               error |-> None]

\* load_model that starts by clearing is_loaded, as a reload written from
\* scratch would
load_model_resets_flag(self, modelFile, metaFile) ==
    LET cleared == [self EXCEPT !.is_loaded = FALSE] IN
    IF modelFile = "missing"
    THEN [self |-> cleared, error |-> "FileNotFoundError"]
    ELSE IF modelFile = "corrupt"
    THEN [self |-> cleared, error |-> "UnpicklingError"]
    ELSE LET withModel == [cleared EXCEPT !.model = modelFile] IN
         IF metaFile.kind = "corrupt"
         THEN [self |-> withModel, error |-> "JSONDecodeError"]
         ELSE [self |-> [withModel EXCEPT
                            !.metadata = IF metaFile.kind = "json"
                                         THEN metaFile.content
                                         ELSE Dict({}, <<>>),
                            !.is_loaded = TRUE],
               error |-> None]

\* The loader after load_model() with the given files, and the exception it
\* re-raises (None when it returns).  Assignments made before the failing
\* statement stay.
load_model(self, modelFile, metaFile) ==
    IF modelFile = "missing"
    THEN [self |-> self, error |-> "FileNotFoundError"]
    ELSE IF modelFile = "corrupt"
    THEN [self |-> self, error |-> "UnpicklingError"]
    ELSE LET withModel == [self EXCEPT !.model = modelFile] IN
         IF metaFile.kind = "corrupt"
         THEN [self |-> withModel, error |-> "JSONDecodeError"]
         ELSE [self |-> [withModel EXCEPT
                            !.metadata = IF metaFile.kind = "json"
                                         THEN metaFile.content
                                         ELSE Dict({}, <<>>),
                            !.is_loaded = TRUE],
               error |-> None]

----------------------------------------------------------------------------
(* Requests, rows and the regressor *)

Countries == {"India"}
Rainfalls == {-1, 1000}
Pesticides == {-1, 5000}
Temps == {-51, -50, 60, 61}

Contexts ==
    [country : Countries, rainfall_mm : Rainfalls,
     pesticides_tonnes : Pesticides, avg_temp : Temps]

NoCtx == [country |-> "", rainfall_mm |-> 0, pesticides_tonnes |-> 0, avg_temp |-> 0]

\* contexts used for direct calls of the loader, which does not look at them
LoaderContexts ==
    {c \in Contexts :
        \/ c.rainfall_mm = 1000 /\ c.pesticides_tonnes = 5000 /\ c.avg_temp = 60
        \/ c.rainfall_mm = -1 /\ c.pesticides_tonnes = -1 /\ c.avg_temp = 61}

\* the context used for calls of the functions of inference.py
InfContexts == {c \in LoaderContexts : c.avg_temp = 60}

RequestCrops == {"X", "x", "Wheat", "Unicorn"}

TopNs == {NoInt} \cup {Some(n) : n \in (0 - MaxTopN)..MaxTopN}

\* one row of the DataFrame handed to model.predict
Row(crop, ctx) ==
    [crop |-> crop, country |-> ctx.country, rainfall_mm |-> ctx.rainfall_mm,
     pesticides_tonnes |-> ctx.pesticides_tonnes, avg_temp |-> ctx.avg_temp]

\* What model.predict does with a batch of n rows: it raises, or returns n
\* numbers.
RegressorOutcomes(n) ==
    {[raised |-> TRUE, preds |-> <<>>]}
    \cup {[raised |-> FALSE,
           preds |-> [i \in 1..n |-> f[((i - 1) % MaxVary) + 1]]]
          : f \in [1..Min(n, MaxVary) -> Scores]}

----------------------------------------------------------------------------
(* Ranking *)

\* max(0, float(prediction))
NonNegative(prediction) == IF 0 >= prediction THEN 0 ELSE prediction

\* float(prediction)
AsFloat(prediction) == prediction

Recommendation(crop, yield) ==
    [rank |-> 0, crop |-> crop, predicted_yield |-> yield, yield_unit |-> "hg/ha"]

\* x put into a list sorted by predicted_yield descending, after every entry
\* whose yield is not smaller
InsertDesc(sorted, x) ==
    LET k == Cardinality({i \in 1..Len(sorted) :
                            sorted[i].predicted_yield >= x.predicted_yield})
    IN SubSeq(sorted, 1, k) \o <<x>> \o SubSeq(sorted, k + 1, Len(sorted))

\* results.sort(key=predicted_yield, reverse=True): a stable sort, equal keys
\* keep their order
RECURSIVE SortByYieldDesc(_)
SortByYieldDesc(results) ==
    IF results = <<>> THEN <<>>
    ELSE InsertDesc(SortByYieldDesc(SubSeq(results, 1, Len(results) - 1)),
                    results[Len(results)])

\* ranks in which entries of equal yield share a rank
AssignRanksTied(results) ==
    [i \in 1..Len(results) |->
        [results[i] EXCEPT !.rank =
            1 + Cardinality({j \in 1..Len(results) :
                               results[j].predicted_yield > results[i].predicted_yield})]]

\* for i, result in enumerate(results): result["rank"] = i + 1
AssignRanks(results) ==
    [i \in 1..Len(results) |-> [results[i] EXCEPT !.rank = i]]

\* results[:top_n] for an int top_n, negative ones counting from the end
SliceTo(results, n) ==
    IF n >= 0
    THEN SubSeq(results, 1, Min(n, Len(results)))
    ELSE SubSeq(results, 1, Max(Len(results) + n, 0))

\* if top_n is not None: results = results[:top_n]
TopN(results, top_n) ==
    IF top_n # NoInt THEN SliceTo(results, top_n[1]) ELSE results

----------------------------------------------------------------------------
(* Tables: a pandas DataFrame is its column labels, in order, and its rows, *)
(* each row holding one cell per column.  A cell is a number, a string or   *)
(* the missing value.                                                       *)

Num(n) == [t |-> "num", n |-> n, s |-> ""]
Str(s) == [t |-> "str", n |-> 0, s |-> s]
NaN == [t |-> "nan", n |-> 0, s |-> ""]

DataFrame(columns, rows) == [columns |-> columns, rows |-> rows]
EmptyFrame == DataFrame(<<>>, <<>>)

\* a dict of column names is the set of its (key, value) pairs; an optional
\* argument is given or left to its default None
NoMapping == [given |-> FALSE, dict |-> {}]
SomeMapping(d) == [given |-> TRUE, dict |-> d]

\* the (is_valid, errors) pair of the validator, before any call
NoReport == [is_valid |-> FALSE, errors |-> <<>>]

\* What a call of a data function records: the table df passed, the table
\* out returned, df as the call left it, and the other arguments.  A call
\* of any other operation records none.
NoData == <<>>
Data(df, out, df_after) ==
    [df |-> df, out |-> out, df_after |-> df_after,
     mapping |-> NoMapping, context_type |-> "", strategy |-> "", given |-> {},
     context_df |-> EmptyFrame, report |-> NoReport]

----------------------------------------------------------------------------
(* The outcome of a call *)

\* an Optional[List[str]] argument
NoList == [given |-> FALSE, list |-> <<>>]
SomeList(l) == [given |-> TRUE, list |-> l]

\* validate_crop's pair (is_valid, message), the message by its wording and the
\* crop name it quotes
Verdict(is_valid, message, name) ==
    [is_valid |-> is_valid, message |-> message, name |-> name]
NoVerdict == Verdict(FALSE, "", "")

Idle ==
    [op |-> "idle", outcome |-> "idle", error |-> None, status |-> 0,
     value |-> 0, recs |-> <<>>, calls |-> 0, batch |-> <<>>, preds |-> <<>>,
     crop |-> "", ctx |-> NoCtx, top_n |-> NoInt, crops |-> <<>>,
     crops_arg |-> NoList, valid |-> NoVerdict,
     features |-> <<>>, countries |-> <<>>,
     data |-> NoData,
     modelFile |-> "", metaKind |-> "", before |-> ModelLoader_init]

\* the call raised: calls model.predict invocations were made, on batch
Raised(error, calls, batch) ==
    [Idle EXCEPT !.outcome = "raise", !.error = error, !.calls = calls, !.batch = batch]

\* the call returned a yield, computed from the numbers preds that the one
\* model.predict invocation on batch gave
ReturnedValue(value, batch, preds) ==
    [Idle EXCEPT !.outcome = "return", !.value = value, !.calls = 1,
                 !.batch = batch, !.preds = preds]

\* the call returned a recommendation list
ReturnedRecs(recs, batch, preds) ==
    [Idle EXCEPT !.outcome = "return", !.recs = recs, !.calls = 1,
                 !.batch = batch, !.preds = preds]

----------------------------------------------------------------------------
(* ModelLoader.predict and ModelLoader.recommend *)

\* a guard that tests the model reference instead of the flag
NotLoaded_model_is_none(self) == self.model = None

\* the guard of predict and recommend: if not self.is_loaded: raise
NotLoaded(self) == ~self.is_loaded

\* a predict that returns the regressor's number as it is
predict_unclamped(self, crop, ctx, reg) ==
    IF NotLoaded(self)
    THEN Raised("RuntimeError", 0, <<>>)
    ELSE LET input_df == <<Row(crop, ctx)>> IN
         IF reg.raised
         THEN Raised("ModelError", 1, input_df)
         ELSE ReturnedValue(AsFloat(reg.preds[1]), input_df, reg.preds)

\* ModelLoader.predict(crop, **ctx) when model.predict behaves as reg
predict(self, crop, ctx, reg) ==
    IF NotLoaded(self)
    THEN Raised("RuntimeError", 0, <<>>)
    ELSE LET input_df == <<Row(crop, ctx)>> IN
         IF reg.raised
         THEN Raised("ModelError", 1, input_df)
         ELSE ReturnedValue(NonNegative(reg.preds[1]), input_df, reg.preds)

\* the results list of recommend: one entry per crop, sorted, ranked, cut
RankedClamped(crops, predictions, top_n) ==
    LET results == [i \in 1..Len(crops) |->
                        Recommendation(crops[i], NonNegative(predictions[i]))]
    IN TopN(AssignRanks(SortByYieldDesc(results)), top_n)

\* a recommend that scores every crop in a call of its own, the batch of each
\* call holding that crop's row alone
recommend_per_crop_calls(self, ctx, top_n, reg) ==
    IF NotLoaded(self)
    THEN Raised("RuntimeError", 0, <<>>)
    ELSE LET crops == supported_crops(self)
             last_df == IF crops = <<>> THEN <<>> ELSE <<Row(crops[Len(crops)], ctx)>>
         IN IF reg.raised
            THEN Raised("ModelError", Len(crops), last_df)
            ELSE [ReturnedRecs(RankedClamped(crops, reg.preds, top_n), last_df, reg.preds)
                     EXCEPT !.calls = Len(crops)]

\* ModelLoader.recommend(**ctx, top_n) when model.predict behaves as reg
recommend(self, ctx, top_n, reg) ==
    IF NotLoaded(self)
    THEN Raised("RuntimeError", 0, <<>>)
    ELSE LET crops == supported_crops(self)
             input_df == [i \in 1..Len(crops) |-> Row(crops[i], ctx)]
         IN IF reg.raised
            THEN Raised("ModelError", 1, input_df)
            ELSE ReturnedRecs(RankedClamped(crops, reg.preds, top_n), input_df, reg.preds)

\* a recommend that sorted the crop list it got from supported_crops in
\* place: the list is the one the metadata holds
self_after_call_sorted_in_place(self, r) ==
    IF r.outcome = "return" /\ Len(r.recs) = Len(self.metadata.supported_crops)
    THEN [self EXCEPT !.metadata.supported_crops =
                          [i \in 1..Len(r.recs) |-> r.recs[i].crop]]
    ELSE self

\* The loader after predict or recommend gave r.  Neither method assigns to
\* self; the batch and the results are new objects, and the list that
\* supported_crops returns is only read.
self_after_call(self, r) == self

----------------------------------------------------------------------------
(* A ModelLoader used directly *)

NoLoader == [present |-> FALSE, obj |-> ModelLoader_init]

Init ==
    /\ loader = ModelLoader_init
    /\ model_loader = NoLoader
    /\ _model_loader = NoLoader
    /\ last = Idle

\* loader.load_model() with whatever the two paths hold at that moment
LoadModel ==
    /\ last.op = "idle"
    /\ \E modelFile \in ModelFiles, metaFile \in MetaFiles :
         LET r == load_model(loader, modelFile, metaFile) IN
         /\ loader' = r.self
         /\ last' = [Idle EXCEPT !.op = "load_model",
                                 !.outcome = IF r.error = None THEN "return" ELSE "raise",
                                 !.error = r.error,
                                 !.modelFile = modelFile,
                                 !.metaKind = metaFile.kind,
                                 !.before = loader]
    /\ UNCHANGED <<model_loader, _model_loader>>

\* loader.predict(crop, country, rainfall_mm, pesticides_tonnes, avg_temp)
Predict ==
    /\ last.op = "idle"
    /\ \E crop \in RequestCrops, ctx \in LoaderContexts, reg \in RegressorOutcomes(1) :
         LET r == predict(loader, crop, ctx, reg) IN
         /\ last' = [r EXCEPT !.op = "predict", !.crop = crop, !.ctx = ctx,
                              !.before = loader]
         /\ loader' = self_after_call(loader, r)
    /\ UNCHANGED <<model_loader, _model_loader>>

\* loader.recommend(country, rainfall_mm, pesticides_tonnes, avg_temp, top_n)
Recommend ==
    /\ last.op = "idle"
    /\ \E ctx \in LoaderContexts, top_n \in TopNs,
          reg \in RegressorOutcomes(Len(supported_crops(loader))) :
         LET r == recommend(loader, ctx, top_n, reg) IN
         /\ last' = [r EXCEPT !.op = "recommend", !.ctx = ctx, !.top_n = top_n,
                              !.crops = supported_crops(loader), !.before = loader]
         /\ loader' = self_after_call(loader, r)
    /\ UNCHANGED <<model_loader, _model_loader>>

\* reading the metadata properties of the loader
ReadProperties ==
    /\ last.op = "idle"
    /\ last' = [Idle EXCEPT !.op = "properties", !.outcome = "return",
                            !.crops = supported_crops(loader),
                            !.features = feature_names(loader),
                            !.countries = supported_countries(loader),
                            !.error = model_version(loader),
                            !.before = loader]
    /\ UNCHANGED <<loader, model_loader, _model_loader>>

\* the caller has taken the result of the completed call
Return ==
    /\ last.op # "idle"
    /\ last' = Idle
    /\ UNCHANGED <<loader, model_loader, _model_loader>>

----------------------------------------------------------------------------
(* api/model_loader.py: get_model_loader and the module's singleton *)

\* get_model_loader() when the global is g and the two paths hold the given
\* files: the global after the call and the exception that escapes (None when
\* the call returns; it returns the global).  The new ModelLoader is bound to
\* the global before load_model is called on it.
get_model_loader(g, modelFile, metaFile) ==
    IF ~g.present
    THEN LET r == load_model(ModelLoader_init, modelFile, metaFile)
         IN [global |-> [present |-> TRUE, obj |-> r.self], error |-> r.error]
    ELSE [global |-> g, error |-> None]

GetModelLoader ==
    /\ last.op = "idle"
    /\ \E modelFile \in ModelFiles, metaFile \in MetaFiles :
         LET r == get_model_loader(_model_loader, modelFile, metaFile) IN
         /\ _model_loader' = r.global
         /\ last' = [Idle EXCEPT !.op = "get_model_loader",
                                 !.outcome = IF r.error = None THEN "return" ELSE "raise",
                                 !.error = r.error,
                                 !.modelFile = modelFile,
                                 !.metaKind = metaFile.kind,
                                 !.before = _model_loader.obj]
    /\ UNCHANGED <<loader, model_loader>>

NextSingleton == GetModelLoader \/ Return

SpecSingleton == Init /\ [][NextSingleton]_vars

----------------------------------------------------------------------------
(* api/main.py: the application's loader and the two POST handlers *)

\* round(x, 2) of a yield given in thousandths: to the nearest hundredth, a
\* half going to the even neighbour
Round2(x) ==
    LET q == x \div 10
        r == x % 10
    IN IF r < 5 THEN 10 * q
       ELSE IF r > 5 THEN 10 * (q + 1)
       ELSE IF q % 2 = 0 THEN 10 * q ELSE 10 * (q + 1)

\* model_loader is None or not model_loader.is_loaded
Unavailable(ml) == ~ml.present \/ ~ml.obj.is_loaded

\* request.crop not in model_loader.supported_crops
UnsupportedCrop(crop, crops) == \A i \in 1..Len(crops) : crops[i] # crop

\* a temperature check that forgot the lower limit
TempOutOfRange_upper_only(ctx) == ctx.avg_temp > 60

NegativeRainfall(ctx) == ctx.rainfall_mm < 0
NegativePesticides(ctx) == ctx.pesticides_tonnes < 0
TempOutOfRange(ctx) == ctx.avg_temp < -50 \/ ctx.avg_temp > 60

\* the range checks both handlers make, in the order they make them
InvalidRanges(ctx) ==
    NegativeRainfall(ctx) \/ NegativePesticides(ctx) \/ TempOutOfRange(ctx)

\* raise HTTPException(status_code=status)
Rejected(status) == [Idle EXCEPT !.outcome = "raise", !.error = "HTTPException",
                                 !.status = status]

\* the response built from what the loader's call did
Responded(r) ==
    IF r.outcome = "raise"
    THEN [r EXCEPT !.error = "HTTPException", !.status = 500]
    ELSE [r EXCEPT !.status = 200,
                   !.value = Round2(r.value),
                   !.recs = [i \in 1..Len(r.recs) |->
                               [r.recs[i] EXCEPT !.predicted_yield = Round2(@)]]]

\* POST /predict
predict_yield_handler(ml, crop, ctx, reg) ==
    IF Unavailable(ml) THEN Rejected(503)
    ELSE IF UnsupportedCrop(crop, supported_crops(ml.obj)) THEN Rejected(400)
    ELSE IF InvalidRanges(ctx) THEN Rejected(400)
    ELSE Responded(predict(ml.obj, crop, ctx, reg))

\* POST /recommend
recommend_crops_handler(ml, ctx, top_n, reg) ==
    IF Unavailable(ml) THEN Rejected(503)
    ELSE IF InvalidRanges(ctx) THEN Rejected(400)
    ELSE Responded(recommend(ml.obj, ctx, top_n, reg))

\* application start: model_loader = ModelLoader(); model_loader.load_model()
Lifespan ==
    /\ last.op = "idle"
    /\ \E modelFile \in ModelFiles, metaFile \in MetaFiles :
         LET r == load_model(ModelLoader_init, modelFile, metaFile) IN
         /\ model_loader' = [present |-> TRUE, obj |-> r.self]
         /\ last' = [Idle EXCEPT !.op = "lifespan",
                                 !.outcome = IF r.error = None THEN "return" ELSE "raise",
                                 !.error = r.error,
                                 !.modelFile = modelFile,
                                 !.metaKind = metaFile.kind]
    /\ UNCHANGED <<loader, _model_loader>>

PredictHandler ==
    /\ last.op = "idle"
    /\ \E crop \in RequestCrops, ctx \in Contexts, reg \in RegressorOutcomes(1) :
         last' = [predict_yield_handler(model_loader, crop, ctx, reg) EXCEPT
                    !.op = "/predict", !.crop = crop, !.ctx = ctx]
    /\ UNCHANGED <<loader, model_loader, _model_loader>>

RecommendHandler ==
    /\ last.op = "idle"
    /\ \E ctx \in Contexts, top_n \in TopNs,
          reg \in RegressorOutcomes(Len(supported_crops(model_loader.obj))) :
         last' = [recommend_crops_handler(model_loader, ctx, top_n, reg) EXCEPT
                    !.op = "/recommend", !.ctx = ctx, !.top_n = top_n,
                    !.crops = supported_crops(model_loader.obj)]
    /\ UNCHANGED <<loader, model_loader, _model_loader>>

NextApi == Lifespan \/ PredictHandler \/ RecommendHandler \/ Return

SpecApi == Init /\ [][NextApi]_vars

----------------------------------------------------------------------------
(* src/models/inference.py: predict_yield, recommend_crops, validate_crop *)

SUPPORTED_CROPS ==
    << "Maize", "Potatoes", "Rice, paddy", "Sorghum", "Soybeans",
       "Wheat", "Cassava", "Sweet potatoes", "Plantains and others", "Yams" >>

\* crops or SUPPORTED_CROPS: None and the empty list are both false
OrSupported(crops) ==
    IF crops.given /\ crops.list # <<>> THEN crops.list ELSE SUPPORTED_CROPS

\* predict_yield(model, crop, **ctx) when model.predict behaves as reg
predict_yield(crop, ctx, reg) ==
    LET input_df == <<Row(crop, ctx)>> IN
    IF reg.raised
    THEN Raised("ModelError", 1, input_df)
    ELSE ReturnedValue(AsFloat(reg.preds[1]), input_df, reg.preds)

\* the results list of recommend_crops: one entry per crop, sorted, ranked, cut
RankedRaw(crops, predictions, top_n) ==
    LET results == [i \in 1..Len(crops) |->
                        Recommendation(crops[i], AsFloat(predictions[i]))]
    IN TopN(AssignRanks(SortByYieldDesc(results)), top_n)

\* recommend_crops(model, **ctx, crops, top_n) when model.predict behaves as reg
recommend_crops(ctx, crops, top_n, reg) ==
    LET used == OrSupported(crops)
        input_df == [i \in 1..Len(used) |-> Row(used[i], ctx)]
    IN IF reg.raised
       THEN Raised("ModelError", 1, input_df)
       ELSE ReturnedRecs(RankedRaw(used, reg.preds, top_n), input_df, reg.preds)

\* str.lower() on the crop names of the model
Lower(name) ==
    CASE name \in {"Wheat", "WHEAT"} -> "wheat"
      [] name = "Maize" -> "maize"
      [] name = "Unicorn" -> "unicorn"
      [] name = "Potatoes" -> "potatoes"
      [] name = "Rice, paddy" -> "rice, paddy"
      [] name = "Sorghum" -> "sorghum"
      [] name = "Soybeans" -> "soybeans"
      [] name = "Cassava" -> "cassava"
      [] name = "Sweet potatoes" -> "sweet potatoes"
      [] name = "Plantains and others" -> "plantains and others"
      [] name = "Yams" -> "yams"
      [] OTHER -> name

\* the first entry of the list that equals crop when both are lower-cased; 0 if none
FirstCaseInsensitive(crop, supported) ==
    LET hits == {i \in 1..Len(supported) : Lower(supported[i]) = Lower(crop)}
    IN IF hits = {} THEN 0 ELSE CHOOSE i \in hits : \A j \in hits : i <= j

\* validate_crop(crop, supported_crops): (is_valid, message); the message is
\* empty, "Did you mean '<name>'?" or "Crop ... is not supported. ..."
validate_crop(crop, supported_crops_arg) ==
    LET supported == OrSupported(supported_crops_arg)
        hit == FirstCaseInsensitive(crop, supported)
    IN IF \E i \in 1..Len(supported) : supported[i] = crop
       THEN Verdict(TRUE, "", "")
       ELSE IF hit # 0
       THEN Verdict(TRUE, "Did you mean", supported[hit])
       ELSE Verdict(FALSE, "not supported", crop)

InfCropNames == {"A", "B"}
InfCropLists ==
    {NoList} \cup {SomeList(l) : l \in UNION {[1..n -> InfCropNames] : n \in 0..MaxCrops}}

ValidateNames == {"Wheat", "wheat", "WHEAT", "Maize", "Unicorn"}
ValidateLists ==
    {NoList} \cup {SomeList(l) : l \in UNION {[1..n -> {"Wheat", "wheat", "Maize"}] : n \in 0..2}}

\* predict_yield(model, crop, country, rainfall_mm, pesticides_tonnes, avg_temp)
PredictYield ==
    /\ last.op = "idle"
    /\ \E crop \in InfCropNames, ctx \in InfContexts, reg \in RegressorOutcomes(1) :
         last' = [predict_yield(crop, ctx, reg) EXCEPT
                    !.op = "predict_yield", !.crop = crop, !.ctx = ctx]
    /\ UNCHANGED <<loader, model_loader, _model_loader>>

\* recommend_crops(model, country, rainfall_mm, pesticides_tonnes, avg_temp, crops, top_n)
RecommendCrops ==
    /\ last.op = "idle"
    /\ \E ctx \in InfContexts, crops \in InfCropLists, top_n \in TopNs :
         \E reg \in RegressorOutcomes(Len(OrSupported(crops))) :
            last' = [recommend_crops(ctx, crops, top_n, reg) EXCEPT
                       !.op = "recommend_crops", !.ctx = ctx, !.top_n = top_n,
                       !.crops_arg = crops, !.crops = OrSupported(crops)]
    /\ UNCHANGED <<loader, model_loader, _model_loader>>

\* validate_crop(crop, supported_crops)
ValidateCrop ==
    /\ last.op = "idle"
    /\ \E crop \in ValidateNames, supported \in ValidateLists :
         last' = [Idle EXCEPT !.op = "validate_crop", !.outcome = "return",
                              !.crop = crop, !.crops_arg = supported,
                              !.crops = OrSupported(supported),
                              !.valid = validate_crop(crop, supported)]
    /\ UNCHANGED <<loader, model_loader, _model_loader>>

Next ==
    \/ LoadModel \/ Predict \/ Recommend \/ ReadProperties
    \/ PredictYield \/ RecommendCrops \/ ValidateCrop
    \/ Return

Spec == Init /\ [][Next]_vars

----------------------------------------------------------------------------
(* pandas operations used by the data functions *)

\* str.strip() of the labels and values that occur with surrounding blanks
Strip(s) ==
    CASE s = " Area " -> "Area"
      [] s = " USA" -> "USA"
      [] s = "Wheat " -> "Wheat"
      [] s = " country " -> "country"
      [] s = " India " -> "India"
      [] OTHER -> s

\* d.get(k, k) for a dict d: the renaming of one label, the replacement of
\* one value
Lookup(d, k) ==
    IF \E p \in d : p[1] = k THEN (CHOOSE p \in d : p[1] = k)[2] ELSE k

Keys(d) == {p[1] : p \in d}
Values(d) == {p[2] : p \in d}

HasColumn(df, c) == \E i \in 1..Len(df.columns) : df.columns[i] = c

\* position of the column labelled c (labels of the tables handled here are
\* distinct where a column is read by its label)
ColumnIndex(df, c) ==
    CHOOSE i \in 1..Len(df.columns) :
        df.columns[i] = c /\ \A j \in 1..(i - 1) : df.columns[j] # c

\* df[c]
Cells(df, c) == [r \in 1..Len(df.rows) |-> df.rows[r][ColumnIndex(df, c)]]

\* df[c] = cells: the column is replaced where it is, or added at the end
Assign(df, c, cells) ==
    IF HasColumn(df, c)
    THEN DataFrame(df.columns,
                   [r \in 1..Len(df.rows) |->
                       [i \in 1..Len(df.columns) |->
                           IF i = ColumnIndex(df, c) THEN cells[r] ELSE df.rows[r][i]]])
    ELSE DataFrame(Append(df.columns, c),
                   [r \in 1..Len(df.rows) |-> Append(df.rows[r], cells[r])])

\* df.rename(columns=d)
Rename(df, d) ==
    DataFrame([i \in 1..Len(df.columns) |-> Lookup(d, df.columns[i])], df.rows)

\* df.columns = df.columns.str.strip()
StripColumns(df) ==
    DataFrame([i \in 1..Len(df.columns) |-> Strip(df.columns[i])], df.rows)

\* df[cols], for labels that are all there
Select(df, cols) ==
    DataFrame(cols,
              [r \in 1..Len(df.rows) |->
                  [i \in 1..Len(cols) |-> df.rows[r][ColumnIndex(df, cols[i])]]])

\* the cells a row has under the labels cols
KeyOf(df, row, cols) == [k \in 1..Len(cols) |-> row[ColumnIndex(df, cols[k])]]

\* the rows at the positions keep, in their order
RECURSIVE Pick(_, _, _)
Pick(rows, keep, i) ==
    IF i > Len(rows) THEN <<>>
    ELSE (IF i \in keep THEN <<rows[i]>> ELSE <<>>) \o Pick(rows, keep, i + 1)

\* df.dropna(subset=[c])
dropna(df, c) ==
    DataFrame(df.columns,
              Pick(df.rows, {r \in 1..Len(df.rows) : df.rows[r][ColumnIndex(df, c)] # NaN}, 1))

\* df.duplicated(subset=cols, keep="first"): the rows that repeat an earlier
\* row's key; two missing values count as equal
Repeats(df, cols) ==
    {r \in 1..Len(df.rows) :
        \E q \in 1..(r - 1) : KeyOf(df, df.rows[q], cols) = KeyOf(df, df.rows[r], cols)}

\* df.drop_duplicates(subset=cols, keep="first")
drop_duplicates(df, cols) ==
    DataFrame(df.columns, Pick(df.rows, (1..Len(df.rows)) \ Repeats(df, cols), 1))

\* series.str.strip() on one cell: a cell that is no string becomes missing
StripCell(cell) == IF cell.t = "str" THEN Str(Strip(cell.s)) ELSE NaN

\* df[c] = df[c].str.strip()
str_strip(df, c) ==
    Assign(df, c, [r \in 1..Len(df.rows) |-> StripCell(Cells(df, c)[r])])

\* the strings that read as a number, and the number
IsNumeral(s) == s \in {"2000", "2001"}
NumeralValue(s) == IF s = "2000" THEN 2000 ELSE 2001

\* pd.to_numeric(series, errors="coerce") on one cell
ToNumeric(cell) ==
    IF cell.t = "num" THEN cell
    ELSE IF cell.t = "str" /\ IsNumeral(cell.s) THEN Num(NumeralValue(cell.s))
    ELSE NaN

\* series.astype(int) raises on a missing value and on a string that is no
\* integer
CanInt(cell) == cell.t = "num" \/ (cell.t = "str" /\ IsNumeral(cell.s))
AsInt(cell) == IF cell.t = "num" THEN cell ELSE Num(NumeralValue(cell.s))
AllInt(df, c) == \A r \in 1..Len(df.rows) : CanInt(df.rows[r][ColumnIndex(df, c)])

\* df[c] = pd.to_numeric(df[c], errors="coerce")
to_numeric(df, c) ==
    Assign(df, c, [r \in 1..Len(df.rows) |-> ToNumeric(Cells(df, c)[r])])

\* df[c] = df[c].astype(int), for cells that all convert
astype_int(df, c) ==
    Assign(df, c, [r \in 1..Len(df.rows) |-> AsInt(Cells(df, c)[r])])

\* pd.api.types.is_numeric_dtype(df[c]): the dtype pandas infers for the
\* cells, a column with a string in it being of dtype object; a column
\* without cells counts as numeric, as one emptied by a filter is
IsNumericDtype(df, c) ==
    \A r \in 1..Len(df.rows) : df.rows[r][ColumnIndex(df, c)].t \in {"num", "nan"}

\* df[c].isna().any()
AnyMissing(df, c) == \E r \in 1..Len(df.rows) : df.rows[r][ColumnIndex(df, c)] = NaN

\* a data function returned a table, or raised
Ok(df) == [error |-> None, df |-> df]
Fail(error) == [error |-> error, df |-> EmptyFrame]

----------------------------------------------------------------------------
(* src/data/cleaner.py *)

COLUMN_MAPPING ==
    { <<"Area", "country">>, <<"Item", "crop">>, <<"Year", "year">>,
      <<"hg/ha_yield", "yield">>,
      <<"average_rain_fall_mm_per_year", "rainfall_mm">>,
      <<"pesticides_tonnes", "pesticides_tonnes">>, <<"avg_temp", "avg_temp">> }

\* the alias whose first word holds non-ASCII letters is written in ASCII
COUNTRY_MAPPING ==
    { <<"United States of America", "United States">>,
      <<"USA", "United States">>,
      <<"UK", "United Kingdom">>,
      <<"United Kingdom of Great Britain and Northern Ireland", "United Kingdom">>,
      <<"Russian Federation", "Russia">>,
      <<"Republic of Korea", "South Korea">>,
      <<"Korea, Republic of", "South Korea">>,
      <<"Viet Nam", "Vietnam">>,
      <<"Iran (Islamic Republic of)", "Iran">>,
      <<"Syrian Arab Republic", "Syria">>,
      <<"Venezuela (Bolivarian Republic of)", "Venezuela">>,
      <<"Bolivia (Plurinational State of)", "Bolivia">>,
      <<"United Republic of Tanzania", "Tanzania">>,
      <<"Cote d'Ivoire", "Ivory Coast">>,
      <<"Czechia", "Czech Republic">> }

\* mapping or COLUMN_MAPPING: None and the empty dict are both false
OrColumnMapping(mapping) ==
    IF mapping.given /\ mapping.dict # {} THEN mapping.dict ELSE COLUMN_MAPPING

\* standardize_column_names(df, mapping): labels stripped, then renamed
standardize_column_names(df, mapping) ==
    Rename(StripColumns(df), OrColumnMapping(mapping))

\* series.replace(COUNTRY_MAPPING) on one cell
ReplaceCountry(cell) ==
    IF cell.t = "str" THEN Str(Lookup(COUNTRY_MAPPING, cell.s)) ELSE cell

\* df[c] = df[c].replace(COUNTRY_MAPPING)
replace_countries(df, c) ==
    Assign(df, c, [r \in 1..Len(df.rows) |-> ReplaceCountry(Cells(df, c)[r])])

\* a country normalizer that strips blanks but replaces no alias
standardize_country_names_strip_only(df) ==
    IF HasColumn(df, "country") THEN str_strip(df, "country") ELSE df

\* a country normalizer that replaces the aliases before it strips
standardize_country_names_replace_first(df) ==
    IF HasColumn(df, "country")
    THEN str_strip(replace_countries(df, "country"), "country")
    ELSE df

\* standardize_country_names(df), with country_col left at "country"
standardize_country_names(df) ==
    IF HasColumn(df, "country")
    THEN replace_countries(str_strip(df, "country"), "country")
    ELSE df

\* pd.to_numeric on each of the columns cols that the table has
RECURSIVE CoerceColumns(_, _)
CoerceColumns(df, cols) ==
    IF cols = <<>> THEN df
    ELSE LET rest == CoerceColumns(df, Tail(cols)) IN
         IF HasColumn(rest, Head(cols)) THEN to_numeric(rest, Head(cols))
         ELSE rest

\* the labels of cols that the table has, in the order of cols
Present(df, cols) == SelectSeq(cols, LAMBDA c : HasColumn(df, c))

\* clean_yield_data with the two last steps exchanged: duplicates removed
\* first, rows without a yield after that
clean_yield_data_duplicates_first(df) ==
    LET named == standardize_country_names(standardize_column_names(df, NoMapping))
        text == IF HasColumn(named, "crop") THEN str_strip(named, "crop")
                ELSE named
    IN IF HasColumn(text, "year") /\ ~AllInt(text, "year")
       THEN Fail("ValueError")
       ELSE LET typed == IF HasColumn(text, "year") THEN astype_int(text, "year")
                         ELSE text
                numeric == CoerceColumns(typed, << "yield", "rainfall_mm",
                                                   "pesticides_tonnes", "avg_temp" >>)
                key_cols == Present(numeric, << "country", "crop", "year" >>)
                unique == IF key_cols # <<>> THEN drop_duplicates(numeric, key_cols)
                          ELSE numeric
            IN Ok(IF HasColumn(unique, "yield") THEN dropna(unique, "yield") ELSE unique)

\* clean_yield_data(df)
clean_yield_data(df) ==
    LET named == standardize_country_names(standardize_column_names(df, NoMapping))
        text == IF HasColumn(named, "crop") THEN str_strip(named, "crop")
                ELSE named
    IN IF HasColumn(text, "year") /\ ~AllInt(text, "year")
       THEN Fail("ValueError")
       ELSE LET typed == IF HasColumn(text, "year") THEN astype_int(text, "year")
                         ELSE text
                numeric == CoerceColumns(typed, << "yield", "rainfall_mm",
                                                   "pesticides_tonnes", "avg_temp" >>)
                target == IF HasColumn(numeric, "yield") THEN dropna(numeric, "yield")
                          ELSE numeric
                key_cols == Present(target, << "country", "crop", "year" >>)
            IN Ok(IF key_cols # <<>> THEN drop_duplicates(target, key_cols) ELSE target)

\* the renaming, selection and coercion of one context type; the code has
\* no branch for any other tag
OfContextType(df, context_type) ==
    LET renamed ==
            IF context_type = "pesticides"
            THEN Rename(df, { <<"Area", "country">>, <<"Year", "year">>,
                              <<"Value", "pesticides_tonnes">> })
            ELSE IF context_type = "rainfall"
            THEN Rename(StripColumns(df),
                        { <<"Area", "country">>, <<"Year", "year">>,
                          <<"average_rain_fall_mm_per_year", "rainfall_mm">> })
            ELSE df
        value == CASE context_type = "pesticides" -> "pesticides_tonnes"
                   [] context_type = "rainfall" -> "rainfall_mm"
                   [] context_type = "temperature" -> "avg_temp"
                   [] OTHER -> ""
        cols == << "country", "year", value >>
    IN IF value = "" THEN Ok(df)
       ELSE IF \E i \in 1..Len(cols) : ~HasColumn(renamed, cols[i]) THEN Fail("KeyError")
       ELSE Ok(to_numeric(Select(renamed, cols), value))

\* clean_context_data(df, context_type)
clean_context_data(df, context_type) ==
    LET typed == OfContextType(df, context_type) IN
    IF typed.error # None THEN typed
    ELSE LET named == standardize_country_names(typed.df) IN
         IF ~HasColumn(named, "year") THEN Fail("KeyError")
         ELSE IF ~AllInt(named, "year") THEN Fail("ValueError")
         ELSE IF ~HasColumn(named, "country") THEN Fail("KeyError")
         ELSE Ok(drop_duplicates(astype_int(named, "year"), << "country", "year" >>))

\* The numbers of a column, ascending.  The numbers of the tables that are
\* imputed are multiples of 12, which keeps the means and medians whole.
RECURSIVE SortedNumbers(_)
SortedNumbers(cells) ==
    IF cells = <<>> THEN <<>>
    ELSE LET rest == SortedNumbers(Tail(cells))
             x == Head(cells).n
             below == SelectSeq(rest, LAMBDA y : y <= x)
             above == SelectSeq(rest, LAMBDA y : y > x)
         IN IF Head(cells).t = "num" THEN below \o <<x>> \o above ELSE rest

RECURSIVE SumOf(_)
SumOf(numbers) == IF numbers = <<>> THEN 0 ELSE Head(numbers) + SumOf(Tail(numbers))

\* series.median(), missing values skipped; missing when there is no number
Median(cells) ==
    LET v == SortedNumbers(cells)
        n == Len(v)
    IN IF n = 0 THEN NaN
       ELSE IF n % 2 = 1 THEN Num(v[(n + 1) \div 2])
       ELSE Num((v[n \div 2] + v[n \div 2 + 1]) \div 2)

\* series.mean(), missing values skipped
Mean(cells) ==
    LET v == SortedNumbers(cells) IN
    IF Len(v) = 0 THEN NaN ELSE Num(SumOf(v) \div Len(v))

\* series.fillna(value)
fillna(cells, value) == [r \in 1..Len(cells) |-> IF cells[r] = NaN THEN value ELSE cells[r]]

\* df.groupby("country")[c].transform(lambda x: x.fillna(x.median()))
FillByCountry(df, c) ==
    LET cells == Cells(df, c)
        country == Cells(df, "country")
        Group(r) == Pick(cells, {q \in 1..Len(cells) : country[q] = country[r]}, 1)
    IN [r \in 1..Len(cells) |-> IF cells[r] = NaN THEN Median(Group(r)) ELSE cells[r]]

\* the body of the loop of impute_missing_values for the column c
ImputeColumn(df, strategy, c) ==
    IF ~AnyMissing(df, c) THEN Ok(df)
    ELSE IF strategy = "median" THEN Ok(Assign(df, c, fillna(Cells(df, c), Median(Cells(df, c)))))
    ELSE IF strategy = "mean" THEN Ok(Assign(df, c, fillna(Cells(df, c), Mean(Cells(df, c)))))
    ELSE IF strategy = "country_median"
    THEN IF ~HasColumn(df, "country") THEN Fail("KeyError")
         ELSE LET grouped == Assign(df, c, FillByCountry(df, c)) IN
              Ok(Assign(grouped, c, fillna(Cells(grouped, c), Median(Cells(grouped, c)))))
    ELSE Ok(df)

\* the loop over the columns cols, stopped by an exception
RECURSIVE ImputeColumns(_, _, _)
ImputeColumns(result, strategy, cols) ==
    IF cols = <<>> \/ result.error # None THEN result
    ELSE ImputeColumns(ImputeColumn(result.df, strategy, Head(cols)), strategy, Tail(cols))

\* df.select_dtypes(include=[np.number]).columns
NumericColumns(df) == SelectSeq(df.columns, LAMBDA c : IsNumericDtype(df, c))

\* an imputation that does not skip the target
impute_missing_values_target_too(df, strategy) ==
    ImputeColumns(Ok(df), strategy, NumericColumns(df))

\* impute_missing_values(df, strategy)
impute_missing_values(df, strategy) ==
    ImputeColumns(Ok(df), strategy, SelectSeq(NumericColumns(df), LAMBDA c : c # "yield"))

----------------------------------------------------------------------------
(* src/data/fusion.py *)

\* the label pandas gives a column that both sides of a merge carry
Suffixed(c, side) ==
    CASE c = "pesticides_tonnes" /\ side = "x" -> "pesticides_tonnes_x"
      [] c = "pesticides_tonnes" /\ side = "y" -> "pesticides_tonnes_y"
      [] c = "rainfall_mm" /\ side = "x" -> "rainfall_mm_x"
      [] c = "rainfall_mm" /\ side = "y" -> "rainfall_mm_y"
      [] c = "avg_temp" /\ side = "x" -> "avg_temp_x"
      [] OTHER -> "avg_temp_y"

RECURSIVE Flatten(_)
Flatten(seqs) == IF seqs = <<>> THEN <<>> ELSE Head(seqs) \o Flatten(Tail(seqs))

\* left.merge(right[["country", "year", value]], on=["country", "year"],
\* how=how): the rows of left in their order, each once per right row of
\* its key; with how="left" a row without such a right row stays, with
\* the missing value
MergeHow(left, right, value, how) ==
    LET on == << "country", "year" >> IN
    IF \E c \in {"country", "year", value} : ~HasColumn(right, c) THEN Fail("KeyError")
    ELSE IF \E c \in {"country", "year"} : ~HasColumn(left, c) THEN Fail("KeyError")
    ELSE LET clash == HasColumn(left, value)
             n == Len(left.columns)
             columns == [i \in 1..(n + 1) |->
                           IF i > n THEN (IF clash THEN Suffixed(value, "y") ELSE value)
                           ELSE IF left.columns[i] = value THEN Suffixed(value, "x")
                           ELSE left.columns[i]]
             Matching(row) ==
                 Pick(right.rows,
                      {q \in 1..Len(right.rows) :
                          KeyOf(right, right.rows[q], on) = KeyOf(left, row, on)}, 1)
             Joined(row) ==
                 LET found == Matching(row) IN
                 IF found = <<>>
                 THEN (IF how = "left" THEN << Append(row, NaN) >> ELSE <<>>)
                 ELSE [k \in 1..Len(found) |->
                          Append(row, found[k][ColumnIndex(right, value)])]
         IN Ok(DataFrame(columns,
                         Flatten([r \in 1..Len(left.rows) |-> Joined(left.rows[r])])))

\* the join made with how="inner"
LeftMerge_inner(left, right, value) == MergeHow(left, right, value, "inner")

\* result.merge(..., on=["country", "year"], how="left")
LeftMerge(left, right, value) == MergeHow(left, right, value, "left")

\* an optional table argument
NoTable == [given |-> FALSE, df |-> EmptyFrame]
SomeTable(df) == [given |-> TRUE, df |-> df]

\* a check that never finds the table merged already
has_context_never(df) == FALSE

\* all(col in result.columns for col in [...])
has_context(df) ==
    \A c \in {"rainfall_mm", "pesticides_tonnes", "avg_temp"} : HasColumn(df, c)

\* if table is not None: result = result.merge(table[...])
MergeIfGiven(result, table, value) ==
    IF result.error # None \/ ~table.given THEN result
    ELSE LeftMerge(result.df, table.df, value)

\* merge_datasets(yield_df, pesticides_df, rainfall_df, temperature_df)
merge_datasets(yield_df, pesticides_df, rainfall_df, temperature_df) ==
    IF has_context(yield_df) THEN Ok(yield_df)
    ELSE MergeIfGiven(MergeIfGiven(MergeIfGiven(Ok(yield_df),
                                                pesticides_df, "pesticides_tonnes"),
                                   rainfall_df, "rainfall_mm"),
                      temperature_df, "avg_temp")

required_cols ==
    << "country", "crop", "year", "yield", "rainfall_mm", "pesticides_tonnes", "avg_temp" >>

\* df.duplicated(subset=key_cols, keep=False).any(), when the key columns
\* are all there
AnyDuplicate(df) ==
    /\ \A c \in {"country", "crop", "year"} : HasColumn(df, c)
    /\ Repeats(df, << "country", "crop", "year" >>) # {}

\* the (is_valid, errors) pair, errors in the order the checks append them,
\* and the table as the call leaves it
Report(errors, df) == [is_valid |-> Len(errors) = 0, errors |-> errors, df |-> df]

\* a validator without the duplicate check
validate_consolidated_data_no_duplicate_check(df) ==
    Report((IF \E i \in 1..Len(required_cols) : ~HasColumn(df, required_cols[i])
            THEN << "missing_columns" >> ELSE <<>>)
           \o (IF HasColumn(df, "yield") /\ AnyMissing(df, "yield")
               THEN << "missing_yield" >> ELSE <<>>)
           \o (IF HasColumn(df, "yield") /\ ~IsNumericDtype(df, "yield")
               THEN << "yield_not_numeric" >> ELSE <<>>)
           \o (IF Len(df.rows) = 0 THEN << "empty" >> ELSE <<>>),
           df)

\* validate_consolidated_data(df)
validate_consolidated_data(df) ==
    Report((IF \E i \in 1..Len(required_cols) : ~HasColumn(df, required_cols[i])
            THEN << "missing_columns" >> ELSE <<>>)
           \o (IF AnyDuplicate(df) THEN << "duplicates" >> ELSE <<>>)
           \o (IF HasColumn(df, "yield") /\ AnyMissing(df, "yield")
               THEN << "missing_yield" >> ELSE <<>>)
           \o (IF HasColumn(df, "yield") /\ ~IsNumericDtype(df, "yield")
               THEN << "yield_not_numeric" >> ELSE <<>>)
           \o (IF Len(df.rows) = 0 THEN << "empty" >> ELSE <<>>),
           df)

----------------------------------------------------------------------------
(* src/features/engineering.py.  A temperature cell of a feature table is *)
(* in ten-thousandths of a degree, so 100000 is 10 and 100001 is 10.0001;  *)
(* rainfall is in millimetres.                                             *)

temp_bins == << 100000, 200000, 300000 >>
temp_labels == << "cold", "temperate", "warm", "hot" >>
rainfall_bins == << 500, 1000, 2000 >>
rainfall_labels == << "arid", "semi_arid", "moderate", "wet" >>

\* a cut whose intervals are closed on the left: [edge, next edge)
Cut_left_closed(x, edges, labels) ==
    labels[1 + Cardinality({i \in 1..Len(edges) : x >= edges[i]})]

\* pd.cut(x, bins=[-inf, edges..., inf], labels=labels), right=True by
\* default: the intervals are (edge, next edge], so x gets the label of the
\* first edge it does not exceed
Cut(x, edges, labels) ==
    labels[1 + Cardinality({i \in 1..Len(edges) : x > edges[i]})]

CutCell(cell, edges, labels) ==
    IF cell.t = "num" THEN Str(Cut(cell.n, edges, labels)) ELSE NaN

\* np.log1p of a cell: 0 at 0, and the logarithm kept symbolic elsewhere
Log1p(cell) ==
    IF cell.t # "num" THEN NaN
    ELSE IF cell.n = 0 THEN Num(0)
    ELSE [t |-> "log1p", n |-> cell.n, s |-> ""]

\* avg_temp * rainfall_mm / 1000 of two cells, in units of 10^-7
Interaction(temp, rain) ==
    IF temp.t = "num" /\ rain.t = "num" THEN Num(temp.n * rain.n) ELSE NaN

\* create_features(df)
create_features(df) ==
    LET temp == IF HasColumn(df, "avg_temp")
                THEN Assign(df, "temp_category",
                            [r \in 1..Len(df.rows) |->
                                CutCell(Cells(df, "avg_temp")[r], temp_bins, temp_labels)])
                ELSE df
        rain == IF HasColumn(temp, "rainfall_mm")
                THEN Assign(temp, "rainfall_category",
                            [r \in 1..Len(df.rows) |->
                                CutCell(Cells(temp, "rainfall_mm")[r],
                                        rainfall_bins, rainfall_labels)])
                ELSE temp
        pest == IF HasColumn(rain, "pesticides_tonnes")
                THEN Assign(rain, "log_pesticides",
                            [r \in 1..Len(df.rows) |->
                                Log1p(Cells(rain, "pesticides_tonnes")[r])])
                ELSE rain
    IN IF HasColumn(pest, "avg_temp") /\ HasColumn(pest, "rainfall_mm")
       THEN Assign(pest, "temp_rain_interaction",
                   [r \in 1..Len(df.rows) |->
                       Interaction(Cells(pest, "avg_temp")[r],
                                   Cells(pest, "rainfall_mm")[r])])
       ELSE pest

----------------------------------------------------------------------------
(* The data functions called on small tables *)

\* the tables of at most max rows drawn from rows
Tables(columns, rows, max) ==
    {DataFrame(columns, rs) : rs \in UNION {[1..n -> rows] : n \in 0..max}}

\* df with one more column, labelled "line", that holds each row's position
Numbered(df) ==
    DataFrame(Append(df.columns, "line"),
              [r \in 1..Len(df.rows) |-> Append(df.rows[r], Num(r))])

\* raw yield files: countries with a blank and an alias, crops with a blank,
\* years as numbers, as text and missing, yields unparseable and missing; a
\* last column that no step of the cleaning names holds the line of the row
RawYieldTables(max) ==
    {Numbered(df) :
        df \in Tables(<< "Area", "Item", "Year", "hg/ha_yield" >>,
                      {<< Str(a), Str(c), y, v >> :
                          a \in {" USA", "United States", "India"}, c \in {"Wheat", "Wheat "},
                          y \in {Num(2000), Str("2001"), NaN}, v \in {Num(100), Str("abc"), NaN}},
                      max)
              \cup
              Tables(<< "Area", "Year", "hg/ha_yield" >>,
                     {<< Str(a), y, v >> :
                         a \in {" USA", "United States", "India"},
                         y \in {Num(2000), Str("2001"), NaN}, v \in {Num(100), Str("abc"), NaN}},
                     max)}

\* the column labels of the three raw context files
RawContextColumns(context_type) ==
    CASE context_type = "pesticides" -> << "Area", "Year", "Value" >>
      [] context_type = "rainfall" -> << " Area ", "Year", "average_rain_fall_mm_per_year" >>
      [] OTHER -> << "country", "year", "avg_temp" >>

RawContextRows ==
    {<< Str(a), y, v >> :
        a \in {" USA", "United States"}, y \in {Num(2000), NaN}, v \in {Num(5), Str("abc")}}

RawContextTables(max) ==
    UNION {Tables(RawContextColumns(t), RawContextRows, max) :
              t \in {"pesticides", "rainfall", "temperature"}}

ContextTypes == {"pesticides", "rainfall", "temperature", "humidity"}

\* cleaned yield tables: bare, with one context column, with all three
YieldColumns ==
    { << "country", "crop", "year", "yield" >>,
      << "country", "crop", "year", "yield", "pesticides_tonnes" >>,
      << "country", "crop", "year", "yield", "rainfall_mm", "pesticides_tonnes", "avg_temp" >> }

YieldKeys ==
    { << Str("India"), Str("Wheat"), Num(2000) >>, << Str("India"), Str("Maize"), Num(2000) >>,
      << Str("Kenya"), Str("Wheat"), Num(2000) >>, << Str("India"), Str("Wheat"), Num(2001) >> }

YieldTables(max) ==
    UNION {Tables(cols, {k \o [i \in 1..(Len(cols) - 3) |-> Num(1)] : k \in YieldKeys}, max) :
              cols \in YieldColumns}

\* cleaned context tables, the value column labelled "value" until the
\* table is passed as one of the three arguments
ContextTables(max) ==
    Tables(<< "country", "year", "value" >>,
           { << Str("India"), Num(2000), Num(5) >>, << Str("India"), Num(2000), Num(6) >>,
             << Str("Kenya"), Num(2000), Num(5) >> },
           max)

\* the argument of merge_datasets for the context type t: None, or the
\* context table with its value column labelled for t
Argument(t, value, given, context_df) ==
    IF t \in given THEN SomeTable(Rename(context_df, { <<"value", value>> })) ELSE NoTable

\* consolidated tables: complete, without a context column, without crop
ConsolidatedColumns ==
    { required_cols,
      << "country", "crop", "year", "yield", "rainfall_mm", "pesticides_tonnes" >>,
      << "country", "year", "yield", "rainfall_mm", "pesticides_tonnes", "avg_temp" >> }

ConsolidatedTables(max) ==
    UNION {Tables(cols,
                  {[i \in 1..Len(cols) |->
                      CASE cols[i] = "country" -> Str(a)
                        [] cols[i] = "crop" -> Str("Wheat")
                        [] cols[i] = "year" -> Num(2000)
                        [] cols[i] = "yield" -> v
                        [] OTHER -> Num(1)] :
                   a \in {"India", "Kenya"}, v \in {Num(100), Str("abc"), NaN}},
                  max) :
              cols \in ConsolidatedColumns}

\* feature tables: temperatures at and around the first threshold and at the
\* last one, rainfall at and around the first threshold
FeatureTables(max) ==
    Tables(<< "avg_temp", "rainfall_mm", "pesticides_tonnes" >>,
           {<< Num(t), Num(r), Num(0) >> :
               t \in {99990, 100000, 100001, 300000}, r \in {499, 500, 501}},
           max)
    \cup
    Tables(<< "avg_temp", "pesticides_tonnes" >>,
           {<< Num(t), Num(7) >> : t \in {99990, 100000, 100001, 300000}},
           max)

\* tables whose labels matter, of at most max rows: one or two columns, cells numbered by row
LabelledTables(max) ==
    {DataFrame(cols, [r \in 1..n |-> [i \in 1..Len(cols) |-> Num(10 * r + i)]]) :
        cols \in UNION {[1..k -> {"Area", " Area ", "Item", "note"}] : k \in 1..2},
        n \in 0..max}

Mappings ==
    { NoMapping, SomeMapping({}),
      SomeMapping({ <<"Area", "country">> }),
      SomeMapping({ <<"Area", " country ">> }),
      SomeMapping({ <<"note", "Area">>, <<"Item", "crop">> }) }

\* country names: the aliases, one of them padded, and names that are no
\* alias, one of them padded
CountryNames ==
    Keys(COUNTRY_MAPPING) \cup {" USA", "United States", "India", " India "}

\* tables with a country column, and with the raw label in its place
CountryTables(max) ==
    UNION {Tables(<< label, "year" >>, {<< Str(a), Num(2000) >> : a \in CountryNames}, max) :
              label \in {"country", "Area"}}

\* tables to impute: rainfall and yield, either of them missing in a row,
\* with and without the country column
ImputeTables(max) ==
    Tables(<< "country", "rainfall_mm", "yield" >>,
           {<< Str(a), x, v >> :
               a \in {"India", "Kenya"}, x \in {Num(12), Num(36), NaN}, v \in {Num(120), NaN}},
           max)
    \cup
    Tables(<< "rainfall_mm", "yield" >>,
           {<< x, v >> : x \in {Num(12), Num(36), NaN}, v \in {Num(120), NaN}},
           max)

Strategies == {"median", "mean", "country_median", "mode"}

\* what a data function's call leaves in last
Called(op, df, r) ==
    [Idle EXCEPT !.op = op,
                 !.outcome = IF r.error = None THEN "return" ELSE "raise",
                 !.error = r.error, !.data = Data(df, r.df, df)]

StandardizeColumnNames ==
    /\ last.op = "idle"
    /\ \E df \in LabelledTables(MaxRows), mapping \in Mappings :
         last' = [Called("standardize_column_names", df,
                         Ok(standardize_column_names(df, mapping)))
                     EXCEPT !.data.mapping = mapping]
    /\ UNCHANGED <<loader, model_loader, _model_loader>>

StandardizeCountryNames ==
    /\ last.op = "idle"
    /\ \E df \in CountryTables(MaxRows) :
         last' = Called("standardize_country_names", df, Ok(standardize_country_names(df)))
    /\ UNCHANGED <<loader, model_loader, _model_loader>>

ImputeMissingValues ==
    /\ last.op = "idle"
    /\ \E df \in ImputeTables(MaxRows), strategy \in Strategies :
         last' = [Called("impute_missing_values", df, impute_missing_values(df, strategy))
                     EXCEPT !.data.strategy = strategy]
    /\ UNCHANGED <<loader, model_loader, _model_loader>>

CleanYieldData ==
    /\ last.op = "idle"
    /\ \E df \in RawYieldTables(MaxRows) :
         last' = Called("clean_yield_data", df, clean_yield_data(df))
    /\ UNCHANGED <<loader, model_loader, _model_loader>>

CleanContextData ==
    /\ last.op = "idle"
    /\ \E df \in RawContextTables(MaxRows), context_type \in ContextTypes :
         last' = [Called("clean_context_data", df, clean_context_data(df, context_type))
                     EXCEPT !.data.context_type = context_type]
    /\ UNCHANGED <<loader, model_loader, _model_loader>>

MergeDatasets ==
    /\ last.op = "idle"
    /\ \E df \in YieldTables(MaxRows), context_df \in ContextTables(MaxRows),
          given \in SUBSET {"pesticides", "rainfall", "temperature"} :
         last' = [Called("merge_datasets", df,
                         merge_datasets(df,
                             Argument("pesticides", "pesticides_tonnes", given, context_df),
                             Argument("rainfall", "rainfall_mm", given, context_df),
                             Argument("temperature", "avg_temp", given, context_df)))
                     EXCEPT !.data.given = given, !.data.context_df = context_df]
    /\ UNCHANGED <<loader, model_loader, _model_loader>>

ValidateConsolidatedData ==
    /\ last.op = "idle"
    /\ \E df \in ConsolidatedTables(MaxRows) :
         LET r == validate_consolidated_data(df) IN
         last' = [Idle EXCEPT !.op = "validate_consolidated_data", !.outcome = "return",
                              !.data = [Data(df, EmptyFrame, r.df) EXCEPT
                                          !.report = [is_valid |-> r.is_valid,
                                                      errors |-> r.errors]]]
    /\ UNCHANGED <<loader, model_loader, _model_loader>>

CreateFeatures ==
    /\ last.op = "idle"
    /\ \E df \in FeatureTables(MaxRows) :
         last' = Called("create_features", df, Ok(create_features(df)))
    /\ UNCHANGED <<loader, model_loader, _model_loader>>

NextData ==
    \/ StandardizeColumnNames \/ StandardizeCountryNames
    \/ CleanYieldData \/ CleanContextData \/ ImputeMissingValues
    \/ MergeDatasets \/ ValidateConsolidatedData \/ CreateFeatures
    \/ Return

SpecData == Init /\ [][NextData]_vars

----------------------------------------------------------------------------
(* Properties *)

IsLoaderCall == last.op \in {"predict", "recommend"}
IsRecommend == last.op \in {"recommend", "recommend_crops"}
IsSinglePrediction == last.op \in {"predict", "predict_yield"}
Returned == last.outcome = "return"

\* the exceptions load_model re-raises for a missing or unreadable artifact
ModelLoadErrors == {"FileNotFoundError", "UnpicklingError"}

\* C1: a call of ModelLoader.predict or ModelLoader.recommend on a loader that is
\* not loaded raises the not-loaded error and makes no model.predict invocation.
C1_UnloadedCallsFail ==
    (IsLoaderCall /\ ~last.before.is_loaded)
        => /\ last.outcome = "raise"
           /\ last.error = "RuntimeError"
           /\ last.calls = 0
           /\ last.batch = <<>>

\* recommend was called on a loader whose load_model had failed after the model
\* was read (the model is set, the flag is not)
C1_Witness ==
    /\ last.op = "recommend"
    /\ ~last.before.is_loaded
    /\ last.before.model # None
    /\ last.error = "RuntimeError"

\* C2: load_model raises when the model artifact is missing or unreadable, and
\* when it was called on a freshly constructed loader the loader is still not
\* loaded afterwards.
C2_FailedLoadStaysUnloaded ==
    (last.op = "load_model" /\ last.modelFile \in {"missing", "corrupt"})
        => /\ last.outcome = "raise"
           /\ last.error \in ModelLoadErrors
           /\ (last.before = ModelLoader_init => ~loader.is_loaded)

C2_Witness ==
    /\ last.op = "load_model"
    /\ last.modelFile = "missing"
    /\ last.metaKind = "json"
    /\ last.before = ModelLoader_init
    /\ last.error = "FileNotFoundError"
    /\ ~loader.is_loaded

\* C3: every reported yield is >= 0: the value of a single prediction and each
\* predicted_yield of a recommendation list.
C3_YieldsNonNegative ==
    Returned =>
        /\ IsSinglePrediction => last.value >= 0
        /\ IsRecommend => \A k \in 1..Len(last.recs) : last.recs[k].predicted_yield >= 0

\* the clamped yield of candidate i of the completed recommend call
ClampedPred(i) == IF last.preds[i] > 0 THEN last.preds[i] ELSE 0

\* the number of candidates that come before candidate i when the candidates are
\* ordered by clamped yield descending, equal yields in candidate-list order
Ahead(i) ==
    Cardinality({j \in 1..Len(last.crops) :
                    \/ ClampedPred(j) > ClampedPred(i)
                    \/ ClampedPred(j) = ClampedPred(i) /\ j < i})

\* C4: the list recommend returns is in non-increasing order of predicted_yield,
\* and candidates of equal clamped yield come in candidate-list order: entry k
\* is the candidate with k - 1 candidates ahead of it.
C4_SortedStable ==
    (IsRecommend /\ Returned) =>
        /\ \A k \in 1..(Len(last.recs) - 1) :
              last.recs[k].predicted_yield >= last.recs[k + 1].predicted_yield
        /\ \A k \in 1..Len(last.recs) :
              \E i \in 1..Len(last.crops) :
                 Ahead(i) = k - 1 /\ last.recs[k].crop = last.crops[i]

\* C4 for ModelLoader.recommend alone, which clamps before it sorts
C4_LoaderSortedStable == (last.op = "recommend") => C4_SortedStable

\* C5: the ranks of a returned recommendation list, read in order, are 1, 2, ...,
\* N for N the length of the list.
C5_RanksContiguous ==
    (IsRecommend /\ Returned) =>
        \A k \in 1..Len(last.recs) : last.recs[k].rank = k

\* a returned list cut by a negative top_n, holding a repeated crop with tied yields
C5_Witness ==
    /\ last.op = "recommend" /\ Returned
    /\ last.top_n = Some(-1)
    /\ Len(last.recs) = 2
    /\ last.recs[1].crop = last.recs[2].crop
    /\ last.recs[1].predicted_yield = last.recs[2].predicted_yield
    /\ last.recs[2].rank = 2

\* C6: the returned list has min(top_n, number of candidates) entries, and as many
\* entries as there are candidates when top_n is None.
C6_Length ==
    (IsRecommend /\ Returned) =>
        Len(last.recs) = IF last.top_n = NoInt
                         THEN Len(last.crops)
                         ELSE Min(last.top_n[1], Len(last.crops))

\* C7: recommend called with top_n < 1 raises the invalid-argument error and
\* returns no list (on a loaded loader, the regressor itself not raising).
C7_TopNBelowOneRejected ==
    (/\ IsRecommend
     /\ last.top_n # NoInt
     /\ last.top_n[1] < 1
     /\ (last.op = "recommend" => last.before.is_loaded)
     /\ last.error # "ModelError")
        => last.outcome = "raise" /\ last.error = "ValueError" /\ last.recs = <<>>

InList(name, list) == \E i \in 1..Len(list) : list[i] = name
InListIgnoringCase(name, list) == \E i \in 1..Len(list) : Lower(list[i]) = Lower(name)

\* C8: validate_crop answers True exactly for an exact member of the supported
\* list; a name matching only when case is ignored is not supported and gets a
\* suggestion naming a supported spelling; any other name is not supported with
\* the "not supported" message.
C8_ValidateCrop ==
    (last.op = "validate_crop") =>
        /\ last.valid.is_valid <=> InList(last.crop, last.crops)
        /\ (~InList(last.crop, last.crops) /\ InListIgnoringCase(last.crop, last.crops))
              => /\ last.valid.message = "Did you mean"
                 /\ InList(last.valid.name, last.crops)
                 /\ Lower(last.valid.name) = Lower(last.crop)
        /\ ~InListIgnoringCase(last.crop, last.crops)
              => last.valid.message = "not supported"

\* the preconditions of the two handlers, as the request and the application's
\* loader show them
LoaderAbsentOrUnloaded == ~model_loader.present \/ ~model_loader.obj.is_loaded
BadArgument ==
    \/ last.op = "/predict" /\ ~InList(last.crop, supported_crops(model_loader.obj))
    \/ last.ctx.rainfall_mm < 0
    \/ last.ctx.pesticides_tonnes < 0
    \/ last.ctx.avg_temp < -50
    \/ last.ctx.avg_temp > 60

\* C9: /predict and /recommend answer a request that violates a precondition with
\* 503 (loader absent or not loaded) or 400 (invalid argument), without invoking
\* model.predict and without a prediction in the answer.
C9_HandlersReject ==
    (last.op \in {"/predict", "/recommend"} /\ (LoaderAbsentOrUnloaded \/ BadArgument))
        => /\ last.outcome = "raise"
           /\ last.status = IF LoaderAbsentOrUnloaded THEN 503 ELSE 400
           /\ last.calls = 0
           /\ last.batch = <<>>
           /\ last.value = 0 /\ last.recs = <<>>

\* /predict on a loaded application refused with 400 a crop that is supported
\* only under another capitalisation, all numbers being in range
C9_Witness ==
    /\ last.op = "/predict"
    /\ ~LoaderAbsentOrUnloaded
    /\ last.crop = "x"
    /\ InList("X", supported_crops(model_loader.obj))
    /\ last.ctx.rainfall_mm >= 0 /\ last.ctx.pesticides_tonnes >= 0
    /\ last.ctx.avg_temp = 60
    /\ last.status = 400

\* C10: a loaded loader stays loaded whatever is done with it next.
C10_LoadedForever == [][loader.is_loaded => loader'.is_loaded]_vars

\* a load_model call on a loaded loader has failed and the loader is still loaded
C10_Witness ==
    /\ last.op = "load_model"
    /\ last.before.is_loaded
    /\ last.outcome = "raise"
    /\ loader.is_loaded

\* C11: predict and recommend leave the loader as it was before the call:
\* the model, the metadata (the crop list and its order included) and the
\* is_loaded flag are the ones the last load_model left, whether the call
\* returned or raised.
C11_CallsLeaveLoader ==
    IsLoaderCall =>
        /\ loader = last.before
        /\ loader.model = last.before.model
        /\ loader.metadata = last.before.metadata
        /\ supported_crops(loader) = supported_crops(last.before)
        /\ loader.is_loaded = last.before.is_loaded

\* a recommend on a loaded loader returned the metadata's crops in another
\* order than the metadata lists them
C11_Witness ==
    /\ last.op = "recommend"
    /\ Returned
    /\ loader.is_loaded
    /\ Len(last.recs) = 2
    /\ loader.metadata.supported_crops = << "X", "Y" >>
    /\ last.recs[1].crop = "Y"

\* C12: when the model artifact loads and there is no metadata file, the
\* load succeeds and the loader reports the ten default crops, the five
\* default feature names and no supported country.
C12_DefaultsWithoutMetadata ==
    (last.op = "load_model" /\ last.modelFile \in Artifacts /\ last.metaKind = "missing") =>
        /\ Returned
        /\ loader.is_loaded
        /\ supported_crops(loader) =
              << "Maize", "Potatoes", "Rice, paddy", "Sorghum", "Soybeans",
                 "Wheat", "Cassava", "Sweet potatoes", "Plantains and others", "Yams" >>
        /\ feature_names(loader) =
              << "rainfall_mm", "pesticides_tonnes", "avg_temp", "crop", "country" >>
        /\ supported_countries(loader) = <<>>

\* a load without a metadata file replaced a metadata that listed crops,
\* features and countries of its own
C12_Witness ==
    /\ last.op = "load_model"
    /\ last.modelFile \in Artifacts
    /\ last.metaKind = "missing"
    /\ Returned
    /\ feature_names(last.before) # feature_names(loader)
    /\ supported_countries(last.before) # <<>>

----------------------------------------------------------------------------
(* Properties of the data functions *)

ContextColumns == {"rainfall_mm", "pesticides_tonnes", "avg_temp"}
KnownContextTypes == {"pesticides", "rainfall", "temperature"}

\* a key cell as keys are compared: blanks stripped, aliases replaced
NormCountry(cell) ==
    IF cell.t = "str" THEN Str(Lookup(COUNTRY_MAPPING, Strip(cell.s))) ELSE cell
NormText(cell) == IF cell.t = "str" THEN Str(Strip(cell.s)) ELSE cell

\* the (country, crop, year) key of a row, a column the table lacks counting
\* as missing
NormKey(df, row) ==
    << IF HasColumn(df, "country") THEN NormCountry(row[ColumnIndex(df, "country")]) ELSE NaN,
       IF HasColumn(df, "crop") THEN NormText(row[ColumnIndex(df, "crop")]) ELSE NaN,
       IF HasColumn(df, "year") THEN row[ColumnIndex(df, "year")] ELSE NaN >>

\* C13: the table clean_yield_data returns has no row with a missing yield
\* and no two rows with the same (country, crop, year) key, keys compared
\* after stripping blanks and replacing country aliases.
C13_CleanYieldOutput ==
    (last.op = "clean_yield_data" /\ Returned) =>
        /\ HasColumn(last.data.out, "yield")
        /\ \A r \in 1..Len(last.data.out.rows) :
               last.data.out.rows[r][ColumnIndex(last.data.out, "yield")].t = "num"
        /\ \A q, r \in 1..Len(last.data.out.rows) :
               q < r => NormKey(last.data.out, last.data.out.rows[q]) # NormKey(last.data.out, last.data.out.rows[r])

\* two rows with a yield, written differently (a blank, an alias) but of one
\* key, went in and one row came out
C13_Witness ==
    /\ last.op = "clean_yield_data"
    /\ Returned
    /\ Len(last.data.df.rows) = 2
    /\ last.data.df.rows[1][1] = Str(" USA")
    /\ last.data.df.rows[2][1] = Str("United States")
    /\ last.data.df.rows[1][2] # last.data.df.rows[2][2]
    /\ \A r \in 1..2 : last.data.df.rows[r][ColumnIndex(last.data.df, "hg/ha_yield")].t = "num"
    /\ Len(last.data.out.rows) = 1

\* C14: clean_yield_data and clean_context_data (given the raw table of a
\* known context type) never raise because of a malformed cell: the call
\* returns a table.
C14_CleaningNeverRaises ==
    (\/ last.op = "clean_yield_data"
     \/ /\ last.op = "clean_context_data"
        /\ last.data.context_type \in KnownContextTypes
        /\ last.data.df.columns = RawContextColumns(last.data.context_type))
    => Returned

\* C15: clean_context_data called with a context type other than
\* pesticides, rainfall and temperature fails with a ConfigurationError.
C15_UnknownContextTypeFails ==
    (last.op = "clean_context_data" /\ last.data.context_type \notin KnownContextTypes) =>
        (last.outcome = "raise" /\ last.error = "ConfigurationError")

\* the rows of the context table that carry a yield row's country and year
Hits(row) ==
    {q \in 1..Len(last.data.context_df.rows) :
        /\ last.data.context_df.rows[q][1] = row[ColumnIndex(last.data.df, "country")]
        /\ last.data.context_df.rows[q][2] = row[ColumnIndex(last.data.df, "year")]}

\* C16: when no (country, year) key occurs twice in a context table,
\* merge_datasets returns every yield row exactly once, in the original
\* order and with its cells (the crop among them) unchanged; a row without
\* a matching context row is kept, its context cell missing.
C16_LeftJoinKeepsRows ==
    (/\ last.op = "merge_datasets"
     /\ Returned
     /\ \A q, r \in 1..Len(last.data.context_df.rows) :
            q # r => SubSeq(last.data.context_df.rows[q], 1, 2) # SubSeq(last.data.context_df.rows[r], 1, 2))
    =>
        /\ Len(last.data.out.rows) = Len(last.data.df.rows)
        /\ \A r \in 1..Len(last.data.df.rows) :
              /\ SubSeq(last.data.out.rows[r], 1, Len(last.data.df.columns)) = last.data.df.rows[r]
              /\ \A j \in (Len(last.data.df.columns) + 1)..Len(last.data.out.columns) :
                    IF Hits(last.data.df.rows[r]) = {}
                    THEN last.data.out.rows[r][j] = NaN
                    ELSE \E q \in Hits(last.data.df.rows[r]) :
                            last.data.out.rows[r][j] = last.data.context_df.rows[q][3]

\* two yield rows were merged with a two-row context table of distinct
\* keys: the first row found its context, the second did not
C16_Witness ==
    /\ last.op = "merge_datasets"
    /\ Returned
    /\ last.data.given = {"pesticides", "rainfall", "temperature"}
    /\ Len(last.data.df.columns) = 4
    /\ Len(last.data.context_df.rows) = 2
    /\ last.data.context_df.rows[1][1] # last.data.context_df.rows[2][1]
    /\ Len(last.data.df.rows) = 2
    /\ Hits(last.data.df.rows[1]) # {}
    /\ Hits(last.data.df.rows[2]) = {}
    /\ Len(last.data.out.rows) = 2
    /\ last.data.out.rows[2][5] = NaN

\* C17: a yield table that already has the three context columns comes back
\* from merge_datasets as it went in, whatever context tables are supplied,
\* and merging the result again gives the same table.
C17_AlreadyMergedReturned ==
    (last.op = "merge_datasets" /\ \A c \in ContextColumns : HasColumn(last.data.df, c)) =>
        /\ Returned
        /\ last.data.out = last.data.df
        /\ merge_datasets(last.data.out,
                          Argument("pesticides", "pesticides_tonnes", last.data.given, last.data.context_df),
                          Argument("rainfall", "rainfall_mm", last.data.given, last.data.context_df),
                          Argument("temperature", "avg_temp", last.data.given, last.data.context_df))
             = Ok(last.data.out)

\* a table with the three context columns was merged with three context
\* tables that hold a row for its first key
C17_Witness ==
    /\ last.op = "merge_datasets"
    /\ \A c \in ContextColumns : HasColumn(last.data.df, c)
    /\ last.data.given = {"pesticides", "rainfall", "temperature"}
    /\ Len(last.data.df.rows) = 2
    /\ Hits(last.data.df.rows[1]) # {}
    /\ last.data.out = last.data.df

InErrors(e) == \E i \in 1..Len(last.data.report.errors) : last.data.report.errors[i] = e

\* some key occurs twice in the validated table
RepeatedKey ==
    \E q, r \in 1..Len(last.data.df.rows) :
        /\ q < r
        /\ KeyOf(last.data.df, last.data.df.rows[q], << "country", "crop", "year" >>)
             = KeyOf(last.data.df, last.data.df.rows[r], << "country", "crop", "year" >>)

\* the yield cells of the validated table are all numbers
YieldAllNumbers ==
    \A r \in 1..Len(last.data.df.rows) : last.data.df.rows[r][ColumnIndex(last.data.df, "yield")].t = "num"

\* C18: validate_consolidated_data makes every check and reports a table as
\* valid exactly when it found no problem; a table with all required columns
\* is valid exactly when it is not empty, repeats no (country, crop, year)
\* key and has a numeric yield without a missing value.  The table itself
\* is left as it was, duplicates included.
C18_ValidatorReport ==
    last.op = "validate_consolidated_data" =>
        /\ Returned
        /\ last.data.report.is_valid = (last.data.report.errors = <<>>)
        /\ last.data.df_after = last.data.df
        /\ (\A i \in 1..Len(required_cols) : HasColumn(last.data.df, required_cols[i])) =>
              /\ last.data.report.is_valid =
                    (Len(last.data.df.rows) > 0 /\ ~RepeatedKey /\ YieldAllNumbers)
              /\ InErrors("duplicates") = RepeatedKey
              /\ InErrors("empty") = (Len(last.data.df.rows) = 0)
              /\ (InErrors("missing_yield") \/ InErrors("yield_not_numeric")) = ~YieldAllNumbers

\* a complete table that repeats a key and misses a yield got both problems
\* reported
C18_Witness ==
    /\ last.op = "validate_consolidated_data"
    /\ \A i \in 1..Len(required_cols) : HasColumn(last.data.df, required_cols[i])
    /\ Len(last.data.df.rows) = 2
    /\ last.data.df.rows[1][1] = last.data.df.rows[2][1]
    /\ last.data.report.errors = << "duplicates", "missing_yield" >>
    /\ ~last.data.report.is_valid

\* the cell of row r under the label c of the table create_features returned
Feature(r, c) == last.data.out.rows[r][ColumnIndex(last.data.out, c)]

Asked == IF last.data.mapping.given THEN last.data.mapping.dict ELSE COLUMN_MAPPING

\* C20: the labels standardize_column_names returns are input labels
\* (stripped) or values of the mapping, none has a blank at either end, a
\* column that is no key of the mapping keeps its label, the rows are the
\* input's rows, and the input table is as it was.
C20_StandardizedLabels ==
    last.op = "standardize_column_names" =>
        /\ Len(last.data.out.columns) = Len(last.data.df.columns)
        /\ \A i \in 1..Len(last.data.out.columns) :
              /\ \/ \E j \in 1..Len(last.data.df.columns) :
                        last.data.out.columns[i] = Strip(last.data.df.columns[j])
                 \/ last.data.out.columns[i] \in Values(Asked)
              /\ Strip(last.data.out.columns[i]) = last.data.out.columns[i]
              /\ Strip(last.data.df.columns[i]) \notin Keys(Asked) =>
                     last.data.out.columns[i] = Strip(last.data.df.columns[i])
        /\ last.data.out.rows = last.data.df.rows
        /\ last.data.df_after = last.data.df

\* C21: standardize_country_names replaces every alias of COUNTRY_MAPPING
\* (padded with blanks or not) by its canonical name, changes a name that
\* is no alias by stripping it only, touches nothing else, and returns its
\* own result unchanged when applied to it.
C21_CountryNormalizer ==
    last.op = "standardize_country_names" =>
        /\ Returned
        /\ last.data.out.columns = last.data.df.columns
        /\ Len(last.data.out.rows) = Len(last.data.df.rows)
        /\ \A r \in 1..Len(last.data.df.rows) :
              /\ last.data.out.rows[r][2] = last.data.df.rows[r][2]
              /\ last.data.df.columns[1] = "country" =>
                    LET name == Strip(last.data.df.rows[r][1].s) IN
                    /\ \A p \in COUNTRY_MAPPING :
                           name = p[1] => last.data.out.rows[r][1] = Str(p[2])
                    /\ name \notin Keys(COUNTRY_MAPPING) =>
                           last.data.out.rows[r][1] = Str(name)
              /\ last.data.df.columns[1] # "country" =>
                    last.data.out.rows[r][1] = last.data.df.rows[r][1]
        /\ standardize_country_names(last.data.out) = last.data.out

\* a padded alias and a padded name that is no alias were normalized
C21_Witness ==
    /\ last.op = "standardize_country_names"
    /\ Len(last.data.df.rows) = 2
    /\ last.data.df.columns[1] = "country"
    /\ last.data.df.rows[1][1] = Str(" USA")
    /\ last.data.df.rows[2][1] = Str(" India ")
    /\ last.data.out.rows[1][1] = Str("United States")
    /\ last.data.out.rows[2][1] = Str("India")

\* C22: whatever the strategy, the table impute_missing_values returns has
\* the yield column of its input, missing entries included.
C22_TargetNotImputed ==
    (last.op = "impute_missing_values" /\ Returned) =>
        /\ Len(last.data.out.rows) = Len(last.data.df.rows)
        /\ \A r \in 1..Len(last.data.df.rows) :
               last.data.out.rows[r][ColumnIndex(last.data.out, "yield")]
                 = last.data.df.rows[r][ColumnIndex(last.data.df, "yield")]

\* a row without rainfall and without yield got a rainfall and no yield
C22_Witness ==
    /\ last.op = "impute_missing_values"
    /\ Returned
    /\ last.data.strategy = "country_median"
    /\ Len(last.data.df.columns) = 3
    /\ Len(last.data.df.rows) = 2
    /\ last.data.df.rows[1][2] = NaN
    /\ last.data.df.rows[1][3] = NaN
    /\ last.data.out.rows[1][2] = Num(36)
    /\ last.data.out.rows[1][3] = NaN

\* the entries of a recommendation list that pair crop with yield
Entries(recs, crop, yield) ==
    Cardinality({i \in 1..Len(recs) : recs[i].crop = crop /\ recs[i].predicted_yield = yield})

\* the candidates named crop whose prediction, as the operation reports it,
\* is yield
Scored(op, crops, preds, crop, yield) ==
    Cardinality({i \in 1..Len(crops) :
                    /\ crops[i] = crop
                    /\ yield = IF op = "recommend" THEN NonNegative(preds[i])
                                                 ELSE AsFloat(preds[i])})

\* what one batched scoring looks like in the record of a call: one
\* model.predict invocation, on one row per candidate in the candidates'
\* order, every row with the call's context; and in a returned list every
\* (crop, yield) pair is a candidate with its own prediction, all of them
\* when the list is not cut
OneBatch ==
    /\ last.calls = 1
    /\ last.batch = [i \in 1..Len(last.crops) |-> Row(last.crops[i], last.ctx)]
    /\ Returned =>
          /\ Len(last.preds) = Len(last.crops)
          /\ \A i \in 1..Len(last.recs) :
                 LET c == last.recs[i].crop
                     y == last.recs[i].predicted_yield
                 IN Entries(last.recs, c, y) <= Scored(last.op, last.crops, last.preds, c, y)
          /\ last.top_n = NoInt =>
                 \A i \in 1..Len(last.crops) :
                 \A y \in {NonNegative(last.preds[i]), AsFloat(last.preds[i])} :
                    Entries(last.recs, last.crops[i], y)
                      = Scored(last.op, last.crops, last.preds, last.crops[i], y)

\* C23 as stated: every call of recommend (the loader's method or the
\* function of inference.py) invokes model.predict exactly once, on a batch
\* with one row per candidate crop in candidate order and the same context in
\* every row, and the i-th prediction goes to the i-th candidate.
C23_EveryCallOneBatch ==
    (last.op \in {"recommend", "recommend_crops"}) => OneBatch

\* C23, amended: every call of recommend that gets past the is_loaded guard
\* (every call of recommend_crops, and ModelLoader.recommend on a loaded
\* loader) invokes model.predict exactly once, on a batch with one row per
\* candidate crop in candidate order and the same context in every row, and
\* the i-th prediction goes to the i-th candidate; ModelLoader.recommend on a
\* loader that is not loaded raises RuntimeError without invoking it.
C23_GuardedCallOneBatch ==
    /\ (last.op = "recommend_crops") => OneBatch
    /\ (last.op = "recommend") =>
          IF last.before.is_loaded
          THEN OneBatch
          ELSE last.error = "RuntimeError" /\ last.calls = 0 /\ last.batch = <<>>

\* a loaded loader ranked three candidates, two of them the same crop, and
\* the sort moved the last candidate to the front
C23_Witness ==
    /\ last.op = "recommend"
    /\ Returned
    /\ last.top_n = NoInt
    /\ Len(last.crops) = 3
    /\ last.crops[1] = last.crops[2]
    /\ last.crops[3] # last.crops[1]
    /\ last.preds[1] # last.preds[2]
    /\ last.recs[1].crop = last.crops[3]
    /\ last.recs[1].predicted_yield = 3004

\* C24: every call of get_model_loader either raises or returns a loader
\* whose is_loaded is True, also a call that follows one in which load_model
\* raised.
C24_SingletonLoaded ==
    (last.op = "get_model_loader" /\ Returned) =>
        _model_loader.present /\ _model_loader.obj.is_loaded

\* C25: whenever is_loaded is True the model and the metadata held were set
\* by the same successful load_model call, and a load_model call that fails
\* leaves model, metadata and is_loaded exactly as they were before it.
C25_FailedLoadChangesNothing ==
    (last.op = "load_model" /\ last.outcome = "raise") => loader = last.before

\* C26: when merge_datasets receives a yield table that lacks at least one of
\* the three context columns, together with all three context tables, its
\* output has exactly one column named rainfall_mm, one named
\* pesticides_tonnes and one named avg_temp, also when the yield table
\* already carries one or two of them.
C26_OneColumnPerContext ==
    (/\ last.op = "merge_datasets"
     /\ Returned
     /\ last.data.given = {"pesticides", "rainfall", "temperature"}
     /\ \E c \in ContextColumns : ~HasColumn(last.data.df, c)) =>
        \A c \in ContextColumns :
            Cardinality({i \in 1..Len(last.data.out.columns) :
                            last.data.out.columns[i] = c}) = 1

\* C27: when the caller passes an explicit mapping to
\* standardize_column_names only that mapping is applied; with an explicit
\* empty mapping no column is renamed, the labels are only stripped, so a
\* column named "Area" stays "Area".
C27_ExplicitMappingOnly ==
    (last.op = "standardize_column_names" /\ last.data.mapping.given) =>
        /\ Len(last.data.out.columns) = Len(last.data.df.columns)
        /\ \A i \in 1..Len(last.data.out.columns) :
              last.data.out.columns[i]
                = Lookup(last.data.mapping.dict, Strip(last.data.df.columns[i]))

\* the key of a row of a raw yield table as the cleaning will compare it
RawKey(df, row) ==
    << NormCountry(row[ColumnIndex(df, "Area")]),
       IF HasColumn(df, "Item") THEN NormText(row[ColumnIndex(df, "Item")]) ELSE NaN,
       AsInt(row[ColumnIndex(df, "Year")]) >>

\* the row of a raw yield table has a yield that is a number or reads as one
Parseable(df, row) ==
    LET cell == row[ColumnIndex(df, "hg/ha_yield")]
    IN cell.t = "num" \/ (cell.t = "str" /\ IsNumeral(cell.s))

\* the first line of the raw table that has the key of line r and a
\* parseable yield
Earliest(df, r) ==
    CHOOSE q \in 1..r :
        /\ RawKey(df, df.rows[q]) = RawKey(df, df.rows[r])
        /\ Parseable(df, df.rows[q])
        /\ \A p \in 1..(q - 1) :
               ~(RawKey(df, df.rows[p]) = RawKey(df, df.rows[r]) /\ Parseable(df, df.rows[p]))

\* C28: clean_yield_data drops the rows without a yield before it removes
\* duplicates: for every normalized (country, crop, year) key that some input
\* row with a parseable yield has, the output holds exactly one row, and it
\* is the earliest input row of that key with a parseable yield.
C28_EarliestWithYieldKept ==
    (last.op = "clean_yield_data" /\ Returned) =>
        \A r \in 1..Len(last.data.df.rows) :
            Parseable(last.data.df, last.data.df.rows[r]) =>
                LET kept == {o \in 1..Len(last.data.out.rows) :
                                NormKey(last.data.out, last.data.out.rows[o])
                                  = RawKey(last.data.df, last.data.df.rows[r])}
                IN /\ Cardinality(kept) = 1
                   /\ \A o \in kept :
                          last.data.out.rows[o][ColumnIndex(last.data.out, "line")]
                            = Num(Earliest(last.data.df, r))

\* the first line of a key had no yield and the second line, the same key
\* written with an alias, had one: the second line is the output
C28_Witness ==
    /\ last.op = "clean_yield_data"
    /\ Returned
    /\ Len(last.data.df.rows) = 2
    /\ HasColumn(last.data.df, "Item")
    /\ last.data.df.rows[1][1] = Str(" USA")
    /\ last.data.df.rows[2][1] = Str("United States")
    /\ last.data.df.rows[1][2] # last.data.df.rows[2][2]
    /\ last.data.df.rows[1][3] = Str("2001")
    /\ last.data.df.rows[2][3] = Str("2001")
    /\ last.data.df.rows[1][4] = NaN
    /\ last.data.df.rows[2][4] = Num(100)
    /\ Len(last.data.out.rows) = 1
    /\ last.data.out.rows[1][ColumnIndex(last.data.out, "line")] = Num(2)

\* the candidate list the caller of the completed recommend call asked for:
\* the loader's supported crops, or the crops argument, SUPPORTED_CROPS
\* standing in for an argument left out
Candidates ==
    IF last.op = "recommend" THEN supported_crops(last.before)
    ELSE IF last.crops_arg.given THEN last.crops_arg.list
    ELSE SUPPORTED_CROPS

\* C29: with top_n = None the crops of the returned list are the candidate
\* list as a multiset: every candidate as often as it was listed and no other
\* crop; an explicitly empty candidate list passed to recommend_crops gives
\* an empty result.
C29_CandidatesAsMultiset ==
    (/\ last.op \in {"recommend", "recommend_crops"}
     /\ Returned
     /\ last.top_n = NoInt) =>
        /\ Len(last.recs) = Len(Candidates)
        /\ \A c \in {Candidates[i] : i \in 1..Len(Candidates)}
                       \cup {last.recs[i].crop : i \in 1..Len(last.recs)} :
               Cardinality({i \in 1..Len(last.recs) : last.recs[i].crop = c})
                 = Cardinality({i \in 1..Len(Candidates) : Candidates[i] = c})

\* the regressor of the completed call scored equal rows equally, as one
\* that looks at each row by itself does
RowIndependent ==
    \A i, j \in 1..Len(last.batch) :
        last.batch[i] = last.batch[j] => last.preds[i] = last.preds[j]

\* what that regressor does with the one-row batch of candidate i
ScoreOfRow(i) == [raised |-> FALSE, preds |-> << last.preds[i] >>]

\* C30: for a regressor that scores each row independently of the rest of
\* its batch, the predicted_yield that recommend reports for a crop is the
\* value predict returns for that crop with the same context.
C30_RecommendAgreesWithPredict ==
    (last.op = "recommend" /\ Returned /\ RowIndependent) =>
        \A k \in 1..Len(last.recs) : \A i \in 1..Len(last.crops) :
            last.crops[i] = last.recs[k].crop =>
                LET single == predict(last.before, last.crops[i], last.ctx, ScoreOfRow(i))
                IN /\ single.outcome = "return"
                   /\ single.batch = << last.batch[i] >>
                   /\ single.value = last.recs[k].predicted_yield

\* a list with a crop named twice was ranked by a regressor that gave the
\* two rows one negative number and the third crop a positive one
C30_Witness ==
    /\ last.op = "recommend"
    /\ Returned
    /\ RowIndependent
    /\ Len(last.crops) = 3
    /\ last.crops[1] = last.crops[3]
    /\ last.crops[2] # last.crops[1]
    /\ last.preds[1] = -5000
    /\ last.preds[2] = 3004
    /\ Len(last.recs) = 3
    /\ last.recs[1].crop = last.crops[2]
    /\ last.recs[3].predicted_yield = 0

====
